---- MODULE Spec2Model ----
(***************************************************************************)
(* RingBufferSimulation: the ring buffer (src/ring_buffer.py RingBuffer),  *)
(* its raw-memory plotter (LivePlotter) and the sample generator           *)
(* (SignalGenerator) with the waveform callables of src/main.py.           *)
(*                                                                         *)
(* Threads are numbered: generation threads 1..MaxStarts (one per start()  *)
(* call), API clients calling RingBuffer.write (Writers) and               *)
(* RingBuffer.read_latest (Readers), and the plotter callback.  Every      *)
(* action is one step of one thread between two points where the Python    *)
(* interpreter may switch threads.                                         *)
(***************************************************************************)
EXTENDS Integers, Sequences, FiniteSets, TLC

\* ------------------------------------------------------------------ bounds
\* RingBuffer(size): the capacity of the buffer.
BufSize == 3
\* start() calls made on the one SignalGenerator (one thread object each).
MaxStarts == 2
\* Generation cycles are begun only while time_offset is below this.
MaxTime == 4
\* start(duration=d): d is 1 tick, MaxDur ticks, or long enough for a chunk
\* of BufSize samples.
MaxDur == 3
\* A waveform callable called directly: its argument has up to MaxWaveLen
\* times, the first at most MaxWaveTime ticks.
MaxWaveLen == 4
MaxWaveTime == 21

\* ------------------------------------------------------------ thread names
NoThread == 0
GenThreads == 1..MaxStarts
Writers == {101, 102}
Readers == {201, 202}
\* The consumers that keep the array read_latest returned until their next
\* call; the others use it at the call site and drop it.
Keepers == {201}
Plotter == 301
WriteCallers == GenThreads \cup Writers
Threads == WriteCallers \cup Readers \cup {Plotter}

Slots == 0..(BufSize - 1)

VARIABLES
  buffer,      \* RingBuffer.buffer: slot -> value
  write_ptr,   \* RingBuffer.write_ptr
  lock,        \* RingBuffer.lock: the thread holding it, or NoThread
  pc,          \* thread -> its position
  w_data,      \* write(): the argument `data` of each caller
  w_end,       \* write(): the local end_ptr of each caller
  r_n,         \* read_latest(): the argument num_samples
  r_start,     \* read_latest(): the local start
  r_result,    \* read_latest(): what the call returned (kept by the caller)
  p_data,      \* update_animation(): the storage as handed to line.set_data
  p_ptr,       \* update_animation(): ptr_x
  p_y,         \* update_animation(): ptr_y
  running,     \* SignalGenerator.running
  time_offset, \* SignalGenerator.time_offset (ticks)
  thread,      \* SignalGenerator.thread: NoThread while the attribute is unset
  func,        \* SignalGenerator.func: the waveform callable's configuration
  g_dur,       \* run(): the duration each generation thread closed over
  g_t0,        \* _generate_samples(): the time_offset read on line 167
  g_tmp,       \* _generate_samples(): time_offset + duration, before the store
  m_pc,        \* the thread that owns the generator: its position in stop()
  stop_ret,    \* how the last stop() ended
  hist,        \* history: the last BufSize values of zeros ++ all chunks
  snap,        \* history: storage and cursor as of the last completed write
  p_legit,     \* history: the storage views a serialized read could have had
  starts,      \* history: start() calls so far
  cycles,      \* history: completed _generate_samples calls
  f_t,         \* a direct call func(t): the argument t
  f_ret        \* a direct call func(t): the sequence returned

bufVars == <<buffer, write_ptr, lock>>
writeVars == <<w_data, w_end>>
readVars == <<r_n, r_start, r_result>>
plotVars == <<p_data, p_ptr, p_y, p_legit>>
genVars == <<running, time_offset, thread, func, g_dur, g_t0, g_tmp, m_pc,
             stop_ret, starts, cycles>>
histVars == <<hist, snap>>
waveVars == <<f_t, f_ret>>
vars == <<bufVars, pc, writeVars, readVars, plotVars, genVars,
                 histVars, waveVars>>

\* ---------------------------------------------------------------- helpers
\* Python's seq[a:b] on a 1-indexed TLA+ sequence, 0 <= a <= b <= Len(seq).
PySlice(seq, a, b) == [i \in 1..(b - a) |-> seq[a + i]]

\* numpy's buf[a:b] read out as a sequence.
BufSlice(buf, a, b) == [i \in 1..(b - a) |-> buf[a + i - 1]]

\* numpy's buf[lo:lo+len(vals)] = vals.
StoreSlice(buf, lo, vals) ==
  [i \in DOMAIN buf |->
     IF lo <= i /\ i < lo + Len(vals) THEN vals[i - lo + 1] ELSE buf[i]]

\* The last k elements of a sequence.
LastN(seq, k) == PySlice(seq, Len(seq) - k, Len(seq))

\* ------------------------------------------------------- RingBuffer.write
\* Mutant of EndPtr: the cursor is advanced without wrapping.
EndPtrNoWrap(w, n) == w + n

\* Line 27: end_ptr = (self.write_ptr + n) % self.size
EndPtr(w, n) == (w + n) % BufSize

\* Mutant of WriteFull: the head of the chunk is kept, data[:self.size].
WriteFullHead(buf, data) == StoreSlice(buf, 0, PySlice(data, 0, BufSize))

\* Line 24: self.buffer[:] = data[-self.size:]   (taken when len(data) >= size)
WriteFull(buf, data) ==
  StoreSlice(buf, 0, PySlice(data, Len(data) - BufSize, Len(data)))

\* Lines 30-31 (wrap: first_part = size - write_ptr; buffer[write_ptr:] =
\* data[:first_part]) and line 35 (no wrap: buffer[write_ptr:end_ptr] = data).
WriteFirst(buf, w, data) ==
  IF EndPtr(w, Len(data)) < w
    THEN StoreSlice(buf, w, PySlice(data, 0, BufSize - w))
    ELSE StoreSlice(buf, w, data)

\* Mutant of WriteSecond: the second part is taken from the chunk's head,
\* data[:end_ptr].
WriteSecondFromHead(buf, w, data) ==
  StoreSlice(buf, 0, PySlice(data, 0, Len(data) - (BufSize - w)))

\* Line 32: self.buffer[0:end_ptr] = data[first_part:], where first_part is
\* size - write_ptr (line 30) and the cursor has not moved since.
WriteSecond(buf, w, data) ==
  StoreSlice(buf, 0, PySlice(data, BufSize - w, Len(data)))

\* Lines 21-36 as one step: the storage and cursor a whole write leaves.
WriteWhole(buf, w, data) ==
  IF Len(data) >= BufSize
    THEN [buf |-> WriteFull(buf, data), ptr |-> 0]
    ELSE [buf |-> IF EndPtr(w, Len(data)) < w
                     THEN WriteSecond(WriteFirst(buf, w, data), w, data)
                     ELSE WriteFirst(buf, w, data),
          ptr |-> EndPtr(w, Len(data))]

\* The chunk of n values a client passes to write: each value tells the
\* writer (hundreds), the chunk's length (tens) and the position in the chunk
\* (units) apart.
ClientChunk(t, n) == [i \in 1..n |-> (t - 101) * 100 + n * 10 + i]

\* A client calls rb.write(data) with a chunk of any length 0..BufSize+1.
WCall(t) ==
  /\ t \in Writers
  /\ pc[t] = "idle"
  /\ \E n \in 0..(BufSize + 1) :
       w_data' = [w_data EXCEPT ![t] = ClientChunk(t, n)]
  /\ pc' = [pc EXCEPT ![t] = "w_lock"]
  /\ UNCHANGED <<bufVars, w_end, readVars, plotVars, genVars,
                 histVars, waveVars>>

\* Line 20: with self.lock (entry).
WAcquire(t) ==
  /\ pc[t] = "w_lock"
  /\ lock = NoThread
  /\ lock' = t
  /\ pc' = [pc EXCEPT ![t] = "w_store"]
  /\ UNCHANGED <<buffer, write_ptr, writeVars, readVars, plotVars, genVars,
                 histVars, waveVars>>

\* Lines 21-24, or 21-22, 27-31 / 35: the first store into the storage.
WStore(t) ==
  /\ pc[t] = "w_store"
  /\ IF Len(w_data[t]) >= BufSize
       THEN /\ buffer' = WriteFull(buffer, w_data[t])
            /\ pc' = [pc EXCEPT ![t] = "w_reset"]
            /\ UNCHANGED w_end
       ELSE /\ buffer' = WriteFirst(buffer, write_ptr, w_data[t])
            /\ w_end' = [w_end EXCEPT ![t] = EndPtr(write_ptr, Len(w_data[t]))]
            /\ pc' = [pc EXCEPT ![t] =
                        IF EndPtr(write_ptr, Len(w_data[t])) < write_ptr
                          THEN "w_second" ELSE "w_ptr"]
  /\ UNCHANGED <<write_ptr, lock, w_data, readVars, plotVars, genVars,
                 histVars, waveVars>>

\* Line 32: the second half of a wrapping write.
WSecond(t) ==
  /\ pc[t] = "w_second"
  /\ buffer' = WriteSecond(buffer, write_ptr, w_data[t])
  /\ pc' = [pc EXCEPT ![t] = "w_ptr"]
  /\ UNCHANGED <<write_ptr, lock, writeVars, readVars, plotVars, genVars,
                 histVars, waveVars>>

\* Line 25: self.write_ptr = 0
WReset(t) ==
  /\ pc[t] = "w_reset"
  /\ write_ptr' = 0
  /\ pc' = [pc EXCEPT ![t] = "w_unlock"]
  /\ UNCHANGED <<buffer, lock, writeVars, readVars, plotVars, genVars,
                 histVars, waveVars>>

\* Line 36: self.write_ptr = end_ptr
WPtr(t) ==
  /\ pc[t] = "w_ptr"
  /\ write_ptr' = w_end[t]
  /\ pc' = [pc EXCEPT ![t] = "w_unlock"]
  /\ UNCHANGED <<buffer, lock, writeVars, readVars, plotVars, genVars,
                 histVars, waveVars>>

\* Line 20: with self.lock (exit); write returns to its caller: a client is
\* idle again, a generation thread goes on to time.sleep (line 185).
WRelease(t) ==
  /\ pc[t] = "w_unlock"
  /\ lock' = NoThread
  /\ pc' = [pc EXCEPT ![t] = IF t \in GenThreads THEN "g_sleep" ELSE "idle"]
  /\ w_data' = [w_data EXCEPT ![t] = <<>>]
  /\ w_end' = [w_end EXCEPT ![t] = 0]
  /\ hist' = LastN(hist \o w_data[t], BufSize)
  /\ snap' = WriteWhole(snap.buf, snap.ptr, w_data[t])
  /\ UNCHANGED <<buffer, write_ptr, readVars, plotVars, genVars, waveVars>>

WriteStep(t) ==
  WAcquire(t) \/ WStore(t) \/ WSecond(t) \/ WReset(t) \/ WPtr(t) \/ WRelease(t)

\* ------------------------------------------------- RingBuffer.read_latest
NoResult == [kind |-> "none", vals |-> <<>>, lo |-> 0, hi |-> 0]
Raised(e) == [kind |-> e, vals |-> <<>>, lo |-> 0, hi |-> 0]
Copy(vals) == [kind |-> "copy", vals |-> vals, lo |-> 0, hi |-> 0]
View(lo, hi) == [kind |-> "view", vals |-> <<>>, lo |-> lo, hi |-> hi]

\* The values a returned array shows its holder while the storage is buf: a
\* copy keeps its own, a view (a numpy basic slice) shows the storage's.
Deref(res, buf) ==
  IF res.kind = "view" THEN BufSlice(buf, res.lo, res.hi) ELSE res.vals

\* Mutant of TooMany: the range check is off by one.
TooManyOffByOne(n) == n >= BufSize

\* Line 41: if num_samples > self.size
TooMany(n) == n > BufSize

\* Line 43: start = (self.write_ptr - num_samples) % self.size
ReadStart(w, n) == (w - n) % BufSize

\* Mutant of ReadContiguous: the slice is returned without .copy().
ReadContiguousView(buf, start, n) == View(start, start + n)

\* Line 45: return self.buffer[start:start+num_samples].copy()
ReadContiguous(buf, start, n) == Copy(BufSlice(buf, start, start + n))

\* Mutant of ReadWrapped: the two parts are concatenated in storage order.
ReadWrappedSwapped(buf, start, n) ==
  Copy(BufSlice(buf, 0, (start + n) - BufSize) \o BufSlice(buf, start, BufSize))

\* Lines 48-49: end_len = (start + num_samples) - self.size;
\* return np.concatenate((self.buffer[start:], self.buffer[:end_len]))
ReadWrapped(buf, start, n) ==
  Copy(BufSlice(buf, start, BufSize) \o BufSlice(buf, 0, (start + n) - BufSize))

\* Lines 44-49.
ReadSlices(buf, start, n) ==
  IF start + n <= BufSize
    THEN ReadContiguous(buf, start, n)
    ELSE ReadWrapped(buf, start, n)

\* Lines 41-49 on a given storage and cursor.
ReadLatest(buf, w, n) ==
  IF TooMany(n) THEN Raised("ValueError") ELSE ReadSlices(buf, ReadStart(w, n), n)

\* A consumer calls rb.read_latest(n), n in 1..BufSize+1 (a keeper) or the
\* whole window or one more (a poller); the array of its previous call is
\* dropped.
RCall(t) ==
  /\ pc[t] = "idle"
  /\ \E n \in (IF t \in Keepers THEN 1 ELSE BufSize)..(BufSize + 1) :
       r_n' = [r_n EXCEPT ![t] = n]
  /\ r_result' = [r_result EXCEPT ![t] = NoResult]
  /\ pc' = [pc EXCEPT ![t] = "r_lock"]
  /\ UNCHANGED <<bufVars, writeVars, r_start, plotVars, genVars,
                 histVars, waveVars>>

\* Mutant of RAcquire: read_latest does not take the lock.
RAcquireUnlocked(t) ==
  /\ pc[t] = "r_lock"
  /\ pc' = [pc EXCEPT ![t] = "r_start"]
  /\ UNCHANGED <<bufVars, writeVars, readVars, plotVars, genVars,
                 histVars, waveVars>>

\* Line 40: with self.lock (entry).
RAcquire(t) ==
  /\ pc[t] = "r_lock"
  /\ lock = NoThread
  /\ lock' = t
  /\ pc' = [pc EXCEPT ![t] = "r_start"]
  /\ UNCHANGED <<buffer, write_ptr, writeVars, readVars, plotVars, genVars,
                 histVars, waveVars>>

\* Lines 41-43: the range check, then the cursor is read.
RStart(t) ==
  /\ pc[t] = "r_start"
  /\ IF TooMany(r_n[t])
       THEN /\ r_result' = [r_result EXCEPT ![t] = Raised("ValueError")]
            /\ pc' = [pc EXCEPT ![t] = "r_unlock"]
            /\ UNCHANGED r_start
       ELSE /\ r_start' = [r_start EXCEPT ![t] = ReadStart(write_ptr, r_n[t])]
            /\ pc' = [pc EXCEPT ![t] = "r_slice"]
            /\ UNCHANGED r_result
  /\ UNCHANGED <<bufVars, writeVars, r_n, plotVars, genVars,
                 histVars, waveVars>>

\* Lines 44-49: the storage is read and the return value built.
RSlice(t) ==
  /\ pc[t] = "r_slice"
  /\ r_result' = [r_result EXCEPT ![t] = ReadSlices(buffer, r_start[t], r_n[t])]
  /\ pc' = [pc EXCEPT ![t] = "r_unlock"]
  /\ UNCHANGED <<bufVars, writeVars, r_n, r_start, plotVars, genVars,
                 histVars, waveVars>>

\* Mutant of RRelease: the lock is taken with acquire() and released only
\* before a normal return, so the ValueError exit keeps it.
RReleaseOnReturnOnly(t) ==
  /\ pc[t] = "r_unlock"
  /\ lock' = IF r_result[t].kind = "ValueError" THEN lock ELSE NoThread
  /\ pc' = [pc EXCEPT ![t] = "idle"]
  /\ r_start' = [r_start EXCEPT ![t] = 0]
  /\ r_result' = [r_result EXCEPT ![t] = IF t \in Keepers THEN @ ELSE NoResult]
  /\ UNCHANGED <<buffer, write_ptr, writeVars, r_n, plotVars, genVars,
                 histVars, waveVars>>

\* Line 40: with self.lock (exit), on return and on the ValueError alike.
RRelease(t) ==
  /\ pc[t] = "r_unlock"
  /\ lock' = NoThread
  /\ pc' = [pc EXCEPT ![t] = "idle"]
  /\ r_start' = [r_start EXCEPT ![t] = 0]
  /\ r_result' = [r_result EXCEPT ![t] = IF t \in Keepers THEN @ ELSE NoResult]
  /\ UNCHANGED <<buffer, write_ptr, writeVars, r_n, plotVars, genVars,
                 histVars, waveVars>>

ReadStep(t) == RCall(t) \/ RAcquire(t) \/ RStart(t) \/ RSlice(t) \/ RRelease(t)

\* ------------------------------------------ LivePlotter.update_animation
\* The writes that hold the lock and have not yet released it.
InWrite == {t \in WriteCallers :
              pc[t] \in {"w_store", "w_second", "w_reset", "w_ptr", "w_unlock"}}

\* The threads inside `with self.lock` of write or read_latest.
Holders ==
  InWrite \cup {t \in Readers : pc[t] \in {"r_start", "r_slice", "r_unlock"}}

\* Lines 110-114: data = self.buffer.buffer; self.line.set_data(x_vals, data).
\* No lock is taken: the storage is read as it is at this instant.
PData ==
  /\ pc[Plotter] = "idle"
  /\ p_data' = buffer
  /\ p_legit' = {snap.buf} \cup
                {WriteWhole(snap.buf, snap.ptr, w_data[t]).buf : t \in InWrite}
  /\ pc' = [pc EXCEPT ![Plotter] = "p_ptr"]
  /\ UNCHANGED <<bufVars, writeVars, readVars, p_ptr, p_y, genVars,
                 histVars, waveVars>>

\* Line 117: ptr_x = self.buffer.write_ptr
PPtr ==
  /\ pc[Plotter] = "p_ptr"
  /\ p_ptr' = write_ptr
  /\ pc' = [pc EXCEPT ![Plotter] = "p_y"]
  /\ UNCHANGED <<bufVars, writeVars, readVars, p_data, p_y, p_legit, genVars,
                 histVars, waveVars>>

\* Lines 118-121: ptr_y = data[ptr_x], read from the live array `data` names;
\* the frame ends and its locals go.
PSample ==
  /\ pc[Plotter] = "p_y"
  /\ p_y' = buffer[p_ptr]
  /\ pc' = [pc EXCEPT ![Plotter] = "idle"]
  /\ p_data' = [i \in Slots |-> 0]
  /\ p_ptr' = 0
  /\ p_legit' = {}
  /\ UNCHANGED <<bufVars, writeVars, readVars, genVars, histVars, waveVars>>

PlotStep == PData \/ PPtr \/ PSample

\* ------------------------------------------------ waveforms (src/main.py)
\* Ticks per time unit: a frequency f has the period TicksPerUnit / f ticks.
TicksPerUnit == 20
\* 1 / sample_rate, in ticks.
SampleStep == 2

\* SignalFunctions.MySin(frequency=5, offset=0): a period of 4 ticks, so that
\* every tick is a quarter period, where sin is 0, 1, 0, -1.
MySinFunc == [kind |-> "MySin", amplitude |-> 1, frequency |-> 5, offset |-> 0,
              edge_time |-> 0]
\* SignalFunctions.DeltaUpDown(amplitude=2, offset=0, edge_time=0.2) as main.py
\* builds it; edge_time is held in tenths.
DeltaFunc(f) == [kind |-> "DeltaUpDown", amplitude |-> 2, frequency |-> f,
                 offset |-> 0, edge_time |-> 2]
\* The callables a generator is built with: the sine, the pulse with a period
\* of 10 ticks, and the pulse with frequency 0.
Funcs == {MySinFunc, DeltaFunc(2), DeltaFunc(0)}

\* main.py line 33: T = 1/self.frequency raises ZeroDivisionError at 0.
FuncRaises(f) == f.kind = "DeltaUpDown" /\ f.frequency = 0

\* main.py line 18: np.sin(2 * np.pi * t * self.frequency) + self.offset, for
\* a time that is a whole number q of quarter periods.
MySinSample(f, t) ==
  LET q == ((4 * t * f.frequency) \div TicksPerUnit) % 4
  IN  (IF q = 1 THEN 1 ELSE IF q = 3 THEN 0 - 1 ELSE 0) + f.offset

\* Mutant of DeltaSample: the edges are straight ramps, t in place of
\* t**2 * (3 - 2*t).
DeltaSampleLinear(f, t) ==
  LET T == TicksPerUnit \div f.frequency
      x == 10 * (t % T)
      edge0 == T
      edge1 == (1 + f.edge_time) * T
      edge2 == 6 * T
      edge3 == (6 + f.edge_time) * T
      Ramp(p, q) == (f.amplitude * p) \div q
  IN  IF x <= edge0 THEN 0 + f.offset
      ELSE IF x >= edge0 /\ x <= edge1
        THEN Ramp(x - edge0, edge1 - edge0) + f.offset
      ELSE IF x >= edge1 /\ x <= edge2 THEN f.amplitude + f.offset
      ELSE IF x >= edge2 /\ x <= edge3
        THEN (f.amplitude - Ramp(x - edge2, edge3 - edge2)) + f.offset
      ELSE 0 + f.offset

\* main.py lines 33-55 for one time value, the times and edges scaled by 10;
\* the smoothstep t**2 * (3 - 2*t) at t = p/q.
DeltaSample(f, t) ==
  LET T == TicksPerUnit \div f.frequency
      x == 10 * (t % T)
      edge0 == T
      edge1 == (1 + f.edge_time) * T
      edge2 == 6 * T
      edge3 == (6 + f.edge_time) * T
      Smooth(p, q) == (f.amplitude * p * p * (3 * q - 2 * p)) \div (q * q * q)
  IN  IF x <= edge0 THEN 0 + f.offset
      ELSE IF x >= edge0 /\ x <= edge1
        THEN Smooth(x - edge0, edge1 - edge0) + f.offset
      ELSE IF x >= edge1 /\ x <= edge2 THEN f.amplitude + f.offset
      ELSE IF x >= edge2 /\ x <= edge3
        THEN (f.amplitude - Smooth(x - edge2, edge3 - edge2)) + f.offset
      ELSE 0 + f.offset

\* The callable applied to a time vector.  DeltaUpDown walks
\* t_mod[:int(len(t_mod)/2)] (main.py line 42): the first half of the times.
FuncCall(f, t) ==
  IF f.kind = "MySin"
    THEN [i \in 1..Len(t) |-> MySinSample(f, t[i])]
    ELSE [i \in 1..(Len(t) \div 2) |-> DeltaSample(f, t[i])]

\* main.py lines 10-12 and 24-28: the constructors with any arguments (the
\* frequencies in cycles per TicksPerUnit ticks, edge_time in tenths).
MySin(f, o) == [kind |-> "MySin", amplitude |-> 1, frequency |-> f, offset |-> o,
                edge_time |-> 0]
DeltaUpDown(a, f, o, e) == [kind |-> "DeltaUpDown", amplitude |-> a,
                            frequency |-> f, offset |-> o, edge_time |-> e]

\* The configurations the callables are called with directly: sines of period
\* 4 and 2 ticks, pulses of period 20 and 10 ticks with edge_time 0, 0.1, ..,
\* 0.4 (all that keep 0.6 + edge_time <= 1).
Amplitudes == {2, 100}
Offsets == {0, 3}
EdgeTimes == 0..4
WaveFuncs ==
  {MySin(f, o) : f \in {5, 10}, o \in Offsets} \cup
  {DeltaUpDown(a, f, o, e) :
     a \in Amplitudes, f \in {1, 2}, o \in Offsets, e \in EdgeTimes}

\* The time arguments: evenly spaced times, as np.arange builds them, of any
\* length 0..MaxWaveLen.
TimeSeqs ==
  {[i \in 1..n |-> t0 + (i - 1) * step] :
     n \in 0..MaxWaveLen, t0 \in 0..MaxWaveTime, step \in 1..SampleStep}

\* samples = func(t), called by itself on the time argument tv.
WaveCall(tv) ==
  /\ f_t' = tv
  /\ f_ret' = FuncCall(func, tv)
  /\ UNCHANGED <<bufVars, pc, writeVars, readVars, plotVars, genVars, histVars>>

\* ---------------------------------------------------------- SignalGenerator
\* Mutant of TimeVector: the time offset is not added.
TimeVectorNoOffset(t0, d) ==
  [k \in 1..((d + SampleStep - 1) \div SampleStep) |-> (k - 1) * SampleStep]

\* Line 167: t = np.arange(0, duration, 1/self.sample_rate) + self.time_offset;
\* arange yields ceil(duration / step) points.
TimeVector(t0, d) ==
  [k \in 1..((d + SampleStep - 1) \div SampleStep) |-> t0 + (k - 1) * SampleStep]

\* The durations start() is called with.
Durations == {1, MaxDur, SampleStep * BufSize}

Exited == {"exited", "raised"}
Alive(t) == pc[t] \notin ({"unborn"} \cup Exited)

\* Lines 179-188: start(duration=d): running = True, a new thread object is
\* stored in self.thread and started.
Start(d) ==
  /\ m_pc = "idle"
  /\ starts < MaxStarts
  /\ running' = TRUE
  /\ thread' = starts + 1
  /\ starts' = starts + 1
  /\ pc' = [pc EXCEPT ![starts + 1] = "g_check"]
  /\ g_dur' = [g_dur EXCEPT ![starts + 1] = d]
  /\ stop_ret' = "none"
  /\ UNCHANGED <<bufVars, writeVars, readVars, plotVars, time_offset, func, g_t0,
                 g_tmp, m_pc, cycles, histVars, waveVars>>

\* Mutant of StopSet: self.thread.join() without the hasattr guard raises
\* AttributeError when start was never called.
StopSetUnguarded ==
  /\ m_pc = "idle"
  /\ running' = FALSE
  /\ IF thread # NoThread
       THEN m_pc' = "s_join" /\ stop_ret' = "none"
       ELSE m_pc' = "idle" /\ stop_ret' = "AttributeError"
  /\ UNCHANGED <<bufVars, pc, writeVars, readVars, plotVars, time_offset, thread,
                 func, g_dur, g_t0, g_tmp, starts, cycles, histVars, waveVars>>

\* Lines 191-192: stop(): running = False; if hasattr(self, 'thread').
StopSet ==
  /\ m_pc = "idle"
  /\ running' = FALSE
  /\ IF thread # NoThread
       THEN m_pc' = "s_join" /\ stop_ret' = "none"
       ELSE m_pc' = "idle" /\ stop_ret' = "returned"
  /\ UNCHANGED <<bufVars, pc, writeVars, readVars, plotVars, time_offset, thread,
                 func, g_dur, g_t0, g_tmp, starts, cycles, histVars, waveVars>>

\* Line 193: self.thread.join() returns once that thread has ended.
StopJoin ==
  /\ m_pc = "s_join"
  /\ pc[thread] \in Exited
  /\ m_pc' = "idle"
  /\ stop_ret' = "returned"
  /\ UNCHANGED <<bufVars, pc, writeVars, readVars, plotVars, running, time_offset,
                 thread, func, g_dur, g_t0, g_tmp, starts, cycles,
                 histVars, waveVars>>

\* Mutant of GCheck: the loop does not test self.running (while True).
GCheckDeaf(t) ==
  /\ pc[t] = "g_check"
  /\ time_offset < MaxTime
  /\ pc' = [pc EXCEPT ![t] = "g_gen"]
  /\ UNCHANGED <<bufVars, writeVars, readVars, plotVars, genVars, histVars,
                 waveVars>>

\* Line 182: while self.running.  (A cycle is begun only below MaxTime.)
GCheck(t) ==
  /\ pc[t] = "g_check"
  /\ running => time_offset < MaxTime
  /\ pc' = [pc EXCEPT ![t] = IF running THEN "g_gen" ELSE "exited"]
  /\ UNCHANGED <<bufVars, writeVars, readVars, plotVars, genVars,
                 histVars, waveVars>>

\* Lines 167-168: the time vector from time_offset, samples = self.func(t);
\* an exception of the callable ends the thread.
GGen(t) ==
  /\ pc[t] = "g_gen"
  /\ IF FuncRaises(func)
       THEN /\ pc' = [pc EXCEPT ![t] = "raised"]
            /\ UNCHANGED <<w_data, g_t0>>
       ELSE /\ pc' = [pc EXCEPT ![t] = "g_load"]
            /\ g_t0' = [g_t0 EXCEPT ![t] = TimeVector(time_offset, g_dur[t])[1]]
            /\ w_data' = [w_data EXCEPT ![t] =
                            FuncCall(func, TimeVector(time_offset, g_dur[t]))]
  /\ UNCHANGED <<bufVars, w_end, readVars, plotVars, running, time_offset, thread,
                 func, g_dur, g_tmp, m_pc, stop_ret, starts, cycles,
                 histVars, waveVars>>

\* Line 170, first half: self.time_offset + duration is computed.
GLoad(t) ==
  /\ pc[t] = "g_load"
  /\ g_tmp' = [g_tmp EXCEPT ![t] = time_offset + g_dur[t]]
  /\ pc' = [pc EXCEPT ![t] = "g_store"]
  /\ UNCHANGED <<bufVars, writeVars, readVars, plotVars, running, time_offset,
                 thread, func, g_dur, g_t0, m_pc, stop_ret, starts, cycles,
                 histVars, waveVars>>

\* Line 170, second half: the sum is stored; lines 171, 184: the samples are
\* returned and handed to self.buffer.write.
GStore(t) ==
  /\ pc[t] = "g_store"
  /\ time_offset' = g_tmp[t]
  /\ cycles' = cycles + 1
  /\ g_tmp' = [g_tmp EXCEPT ![t] = 0]
  /\ g_t0' = [g_t0 EXCEPT ![t] = 0]
  /\ pc' = [pc EXCEPT ![t] = "w_lock"]
  /\ UNCHANGED <<bufVars, writeVars, readVars, plotVars, running, thread, func,
                 g_dur, m_pc, stop_ret, starts, histVars, waveVars>>

\* Line 185: time.sleep(interval) ends.
GSleep(t) ==
  /\ pc[t] = "g_sleep"
  /\ pc' = [pc EXCEPT ![t] = "g_check"]
  /\ UNCHANGED <<bufVars, writeVars, readVars, plotVars, genVars,
                 histVars, waveVars>>

GenStep(t) == GCheck(t) \/ GGen(t) \/ GLoad(t) \/ GStore(t) \/ GSleep(t)

\* ------------------------------------------------------- specifications
Zeros == [i \in Slots |-> 0]

\* Lines 9-14 and 154-163: the objects as constructed.
InitWith(f) ==
  /\ buffer = Zeros
  /\ write_ptr = 0
  /\ lock = NoThread
  /\ pc = [t \in Threads |-> IF t \in GenThreads THEN "unborn" ELSE "idle"]
  /\ w_data = [t \in WriteCallers |-> <<>>]
  /\ w_end = [t \in WriteCallers |-> 0]
  /\ r_n = [t \in Readers |-> 0]
  /\ r_start = [t \in Readers |-> 0]
  /\ r_result = [t \in Readers |-> NoResult]
  /\ p_data = Zeros
  /\ p_ptr = 0
  /\ p_y = 0
  /\ running = FALSE
  /\ time_offset = 0
  /\ thread = NoThread
  /\ func = f
  /\ g_dur = [t \in GenThreads |-> 0]
  /\ g_t0 = [t \in GenThreads |-> 0]
  /\ g_tmp = [t \in GenThreads |-> 0]
  /\ m_pc = "idle"
  /\ stop_ret = "none"
  /\ hist = [i \in 1..BufSize |-> 0]
  /\ snap = [buf |-> Zeros, ptr |-> 0]
  /\ p_legit = {}
  /\ starts = 0
  /\ cycles = 0
  /\ f_t = <<>>
  /\ f_ret = <<>>

\* The buffer alone, used by API clients: a writer and a consumer that keeps
\* what it read.
InitBuf == InitWith(MySinFunc)
NextBuf ==
  \/ WCall(101) \/ WriteStep(101)
  \/ ReadStep(201)
SpecBuf == InitBuf /\ [][NextBuf]_vars

\* The buffer with two writers and a polling consumer, all contending for
\* the lock.
NextTwo ==
  \/ \E t \in Writers : WCall(t) \/ WriteStep(t)
  \/ ReadStep(202)
SpecTwo == InitBuf /\ [][NextTwo]_vars

\* The buffer with one writer and the plotter.
NextPlot ==
  \/ WCall(101) \/ WriteStep(101)
  \/ PlotStep
SpecPlot == InitBuf /\ [][NextPlot]_vars

\* The generator: its owner calling start and stop, the generation threads,
\* and a consumer polling read_latest.  Every waveform configuration.
Init == \E f \in Funcs : InitWith(f)

\* The generator started once: one start(duration=d), any number of stop()
\* calls, the generation thread and a polling consumer.
NextOne ==
  \/ \E d \in Durations : starts = 0 /\ Start(d)
  \/ StopSet
  \/ StopJoin
  \/ GenStep(1) \/ WriteStep(1)
  \/ ReadStep(202)
SpecOne == Init /\ [][NextOne]_vars

\* The generator started once, under fair scheduling: a thread that can take
\* a step of the loop, of a buffer operation it is inside, or return from
\* join, eventually takes it (the interpreter switches threads and sleep
\* is finite); a thread waiting for the lock gets it if the lock is free
\* again and again.  Consumers may call read_latest for ever, or stop calling.
FairOne ==
  /\ WF_vars(GenStep(1))
  /\ SF_vars(WAcquire(1))
  /\ WF_vars(WStore(1) \/ WSecond(1) \/ WReset(1) \/ WPtr(1) \/ WRelease(1))
  /\ WF_vars(RStart(202) \/ RSlice(202) \/ RRelease(202))
  /\ WF_vars(StopJoin)
SpecFair == SpecOne /\ FairOne

\* The generator under any sequence of start and stop calls.
Next ==
  \/ \E d \in Durations : Start(d)
  \/ StopSet
  \/ StopJoin
  \/ \E t \in GenThreads : GenStep(t) \/ WriteStep(t)
  \/ ReadStep(202)
Spec == Init /\ [][Next]_vars

\* A waveform callable alone, called on one time argument after another.
InitWave == \E f \in WaveFuncs : InitWith(f)
NextWave == \E tv \in TimeSeqs : WaveCall(tv)
SpecWave == InitWave /\ [][NextWave]_vars

\* ------------------------------------------------------------------ claims
\* The values of a chunk's tail that a write of at least BufSize values keeps.
ChunkTail(data) == [i \in Slots |-> data[Len(data) - BufSize + i + 1]]

\* C1: after any sequence of writes, read_latest(n) for every 0 < n <= size
\* returns the last n elements of size zeros followed by all chunks written so
\* far, oldest first: in every state with no operation in progress, and for
\* the array every read_latest call is about to return.
C1_ReadLatestIsHistoryTail ==
  /\ lock = NoThread =>
       \A n \in 1..BufSize :
         ReadLatest(buffer, write_ptr, n) = Copy(LastN(hist, n))
  /\ \A t \in Readers :
       pc[t] = "r_unlock" /\ r_result[t].kind = "copy" =>
         r_result[t].vals = LastN(hist, r_n[t])

\* A whole-window read on the wrap-around path that returns the end of one
\* chunk followed by all of the next, a wrapping write of two values, after
\* the older chunk's first value was overwritten (size 3: [21,22] then
\* [21,22] read as [22,21,22]).
C1_Witness ==
  /\ pc[201] = "r_unlock"
  /\ r_n[201] = BufSize
  /\ r_start[201] + r_n[201] > BufSize
  /\ r_result[201].kind = "copy"
  /\ r_result[201].vals[1] % 10 = BufSize - 1
  /\ r_result[201].vals[BufSize - 1] = 21
  /\ r_result[201].vals[BufSize] = 22
  /\ buffer[0] = 22

\* C2: in every reachable state, also in the middle of a write, the storage
\* has exactly size slots and 0 <= write_ptr < size.
C2_CapacityInvariant ==
  /\ DOMAIN buffer = Slots
  /\ Cardinality(DOMAIN buffer) = BufSize
  /\ write_ptr \in Slots

\* A wrapping write of size - 1 values has just set the cursor behind where it
\* was.
C2_Witness ==
  /\ pc[101] = "w_unlock"
  /\ Len(w_data[101]) = BufSize - 1
  /\ write_ptr < snap.ptr

\* C3: reads and writes are serialized: at most one write is between its
\* first store and its release; while a read_latest is between taking and
\* releasing the lock, no write is, and storage and cursor are those left by
\* the completed writes applied whole, one after the other; the array it
\* returns is read_latest of that state; and with the lock free the storage
\* and cursor are again those of whole writes.
C3_Serialized ==
  /\ Cardinality(InWrite) <= 1
  /\ \A t \in Readers :
       pc[t] \in {"r_start", "r_slice", "r_unlock"} =>
         /\ InWrite = {}
         /\ buffer = snap.buf
         /\ write_ptr = snap.ptr
  /\ \A t \in Readers :
       pc[t] = "r_unlock" => r_result[t] = ReadLatest(snap.buf, snap.ptr, r_n[t])
  /\ lock = NoThread => buffer = snap.buf /\ write_ptr = snap.ptr

\* A read has its result while both writers wait for the lock it holds, after
\* earlier writes moved the cursor.
C3_Witness ==
  /\ pc[202] = "r_unlock"
  /\ r_result[202].kind = "copy"
  /\ pc[101] = "w_lock"
  /\ pc[102] = "w_lock"
  /\ snap.ptr # 0

\* C4: every view update_animation takes of the storage is the storage as it
\* was before or as it will be after each write in progress, never a storage
\* partly overwritten.
C4_PlotterSeesWholeWrites ==
  pc[Plotter] \in {"p_ptr", "p_y"} => p_data \in p_legit

\* C5: a write of N >= size values, from any prior state, leaves slot i
\* holding chunk[N - size + i] and the cursor at 0.
C5_OversizedWrite ==
  \A t \in WriteCallers :
    pc[t] = "w_unlock" /\ Len(w_data[t]) >= BufSize =>
      /\ buffer = ChunkTail(w_data[t])
      /\ write_ptr = 0

\* A write of size + 1 values has completed its stores from a state whose
\* cursor was not 0.
C5_Witness ==
  /\ pc[101] = "w_unlock"
  /\ Len(w_data[101]) = BufSize + 1
  /\ snap.ptr # 0

\* C6: read_latest(n) raises ValueError exactly when n > size, its steps then
\* leave storage and cursor unchanged, and read_latest(size) returns size
\* values in every reachable state.
C6_RangeRejection ==
  /\ [](\A t \in Readers :
          pc[t] = "r_unlock" =>
            /\ r_result[t].kind = "ValueError" <=> r_n[t] > BufSize
            /\ r_n[t] = BufSize =>
                 r_result[t].kind = "copy" /\ Len(r_result[t].vals) = BufSize)
  /\ [][\A t \in Readers :
          r_n[t] > BufSize /\ pc'[t] # pc[t] => UNCHANGED <<buffer, write_ptr>>]_vars

\* read_latest(size + 1) has raised while the cursor is not 0 and the storage
\* holds written values.
C6_Witness ==
  /\ pc[201] = "r_unlock"
  /\ r_n[201] = BufSize + 1
  /\ r_result[201].kind = "ValueError"
  /\ write_ptr # 0
  /\ buffer # Zeros

\* C7: no step of read_latest changes storage or cursor, and whatever a
\* consumer holds from a returned call shows the same values after every
\* later step of any thread.
C7_ReadIsPureAndCopies ==
  [][\A t \in Readers :
       /\ pc'[t] # pc[t] => UNCHANGED <<buffer, write_ptr>>
       /\ pc[t] = "idle" /\ pc'[t] = "idle" =>
            Deref(r_result'[t], buffer') = Deref(r_result[t], buffer)]_vars

\* A consumer holds a whole window returned earlier while the storage has
\* since been overwritten.
C7_Witness ==
  /\ pc[201] = "idle"
  /\ r_result[201].kind = "copy"
  /\ Len(r_result[201].vals) = BufSize
  /\ r_result[201].vals # ReadLatest(buffer, write_ptr, BufSize).vals
  /\ lock = NoThread

\* C8: once stop() has returned, no buffer write happens (until start is
\* called again).
C8_NoWriteAfterStopReturned ==
  [][stop_ret = "returned" => UNCHANGED <<buffer, write_ptr>>]_vars

\* C9: stop() never raises; called when no generation thread is alive, its
\* join has nothing to wait for; and no step of stop() changes storage or
\* cursor.
C9_StopIdempotent ==
  /\ [](stop_ret \in {"none", "returned"})
  /\ [](m_pc = "s_join" /\ (\A t \in GenThreads : ~Alive(t)) =>
          thread \in GenThreads /\ pc[thread] \in Exited)
  /\ [][m_pc' # m_pc \/ stop_ret' # stop_ret =>
          UNCHANGED <<buffer, write_ptr>>]_vars

\* stop() is at its join after the generation thread died of an exception of
\* the waveform callable.
C9_Witness ==
  /\ m_pc = "s_join"
  /\ pc[thread] = "raised"
  /\ \A t \in GenThreads : ~Alive(t)

\* C10: with one start(duration=d), time_offset is N*d after N completed
\* cycles and the time vector of the cycle that follows them starts at N*d.
C10_TimeContinuity ==
  starts = 1 =>
    /\ time_offset = cycles * g_dur[1]
    /\ pc[1] \in {"g_load", "g_store"} => g_t0[1] = cycles * g_dur[1]

\* The third cycle's time vector has been built while a consumer holds the
\* lock inside read_latest.
C10_Witness ==
  /\ starts = 1
  /\ cycles = 2
  /\ pc[1] = "g_store"
  /\ g_t0[1] = 2 * g_dur[1]
  /\ pc[202] = "r_slice"

\* The sample a waveform configuration has for one time value.
SampleAt(f, t) ==
  IF f.kind = "MySin" THEN MySinSample(f, t) ELSE DeltaSample(f, t)

\* C11: MySin and DeltaUpDown, called with a time sequence of any length L,
\* return a sequence of the same length L whose i-th element is the sample
\* for the i-th time value.
C11_SameLengthElementwise ==
  /\ Len(f_ret) = Len(f_t)
  /\ \A i \in 1..Len(f_ret) : f_ret[i] = SampleAt(func, f_t[i])

\* C12: for every sequence of start() and stop() calls, at most one
\* generation thread is alive at any time; start() called while a loop is
\* running does not leave two loops writing and advancing time_offset.
C12_SingleProducer ==
  Cardinality({t \in GenThreads : Alive(t)}) <= 1

\* C13: once the generation thread has died of an exception of the waveform
\* callable and no loop is alive, what the creator can observe shows it: the
\* running flag is false, or stop() has reported an error.
C13_FailureSurfaced ==
  /\ thread # NoThread
  /\ pc[thread] = "raised"
  /\ \A t \in GenThreads : ~Alive(t)
  => \/ ~running
     \/ stop_ret \notin {"none", "returned"}

\* C14: a write of N < size values starting at cursor w stores chunk[j] in
\* slot (w + j) mod size for every 0 <= j < N, leaves every other slot as it
\* was, and sets write_ptr to (w + N) mod size; N = 0 changes nothing, and
\* with w + N = size the cursor becomes 0.
C14_PartialWriteFrame ==
  \A t \in WriteCallers :
    pc[t] = "w_unlock" /\ Len(w_data[t]) < BufSize =>
      LET N == Len(w_data[t])
          w == snap.ptr
          Stored == {(w + j) % BufSize : j \in 0..(N - 1)}
      IN  /\ \A j \in 0..(N - 1) : buffer[(w + j) % BufSize] = w_data[t][j + 1]
          /\ \A s \in Slots \ Stored : buffer[s] = snap.buf[s]
          /\ write_ptr = (w + N) % BufSize
          /\ N = 0 => buffer = snap.buf /\ write_ptr = snap.ptr
          /\ w + N = BufSize => write_ptr = 0

\* A write that ends exactly at the last slot has stored its values from a
\* cursor that was not 0, over a storage whose untouched slot 0 holds a value
\* written before.
C14_Witness ==
  /\ pc[101] = "w_unlock"
  /\ Len(w_data[101]) > 0
  /\ snap.ptr # 0
  /\ snap.ptr + Len(w_data[101]) = BufSize
  /\ write_ptr = 0
  /\ buffer[BufSize - 1] = w_data[101][Len(w_data[101])]
  /\ buffer[0] # 0

\* The threads that hold the chunk of a generation cycle: samples have been
\* returned by func and the write has not yet let go of them.
HoldsChunk(t) ==
  pc[t] \in {"g_load", "g_store", "w_lock", "w_store", "w_second", "w_reset",
             "w_ptr", "w_unlock"}

\* C15: the chunk each generation cycle writes has floor(duration *
\* sampleRate) samples, one per time point of the cycle's window, whatever
\* the waveform in use; here for the durations that are a whole number of
\* sample steps.
C15_ChunkLength ==
  \A t \in GenThreads :
    HoldsChunk(t) /\ g_dur[t] % SampleStep = 0 =>
      Len(w_data[t]) = g_dur[t] \div SampleStep

C17_LockReleased ==
  /\ Holders = {} => lock = NoThread
  /\ lock # NoThread => Holders = {lock}
  /\ \A t \in Readers :
       /\ pc[t] \in {"r_start", "r_slice", "r_unlock"} => ENABLED ReadStep(t)
       /\ pc[t] = "r_lock" => (ENABLED RAcquire(t) <=> Holders = {})
  /\ \A t \in Writers :
       pc[t] = "w_lock" => (ENABLED WAcquire(t) <=> Holders = {})

\* After a read_latest(size + 1) that raised, a write has taken the lock.
C17_Witness ==
  /\ pc[201] = "idle"
  /\ r_result[201].kind = "ValueError"
  /\ pc[101] = "w_store"
  /\ lock = 101

\* C18: time_offset starts at 0 and no step of start(), of a generation
\* cycle or of stop() makes it smaller, under any interleaving.
C18_TimeOffsetMonotone ==
  /\ [](starts = 0 => time_offset = 0)
  /\ [][time_offset' >= time_offset]_vars

\* amplitude * (3u^2 - 2u^3) at u = n/d, in whole numbers as the samples are.
Smoothstep(a, n, d) == (a * (3 * n * n * d - 2 * n * n * n)) \div (d * d * d)

\* The shape stated for a sample s of the pulse f at time t, with the phase
\* p and the window edges scaled by 10: offset outside the pulse, amplitude +
\* offset on the plateau, the smoothstep up on the rise window and down on
\* the fall window (u has no value when edge_time is 0).
DeltaShape(f, t, s) ==
  LET T == TicksPerUnit \div f.frequency
      p == 10 * (t % T)
      e == f.edge_time
  IN  /\ p <= T \/ p > (6 + e) * T => s = f.offset
      /\ (1 + e) * T <= p /\ p <= 6 * T => s = f.amplitude + f.offset
      /\ e # 0 /\ T <= p /\ p <= (1 + e) * T =>
           s = Smoothstep(f.amplitude, p - T, e * T) + f.offset
      /\ e # 0 /\ 6 * T <= p /\ p <= (6 + e) * T =>
           s = (f.amplitude - Smoothstep(f.amplitude, p - 6 * T, e * T))
               + f.offset

\* 0.1 + edge_time <= 0.6 and 0.6 + edge_time <= 1, edge_time in tenths.
EdgesFit(f) == 1 + f.edge_time <= 6 /\ 6 + f.edge_time <= 10

\* C19 as stated: for every edge_time with 0.1 + edge_time <= 0.6 and 0.6 +
\* edge_time <= 1, every sample DeltaUpDown returns has the stated shape.
C19_ShapeAsStated ==
  func.kind = "DeltaUpDown" /\ EdgesFit(func) =>
    \A i \in 1..Len(f_ret) : DeltaShape(func, f_t[i], f_ret[i])

\* C19, amended: for 0 < edge_time with 0.1 + edge_time <= 0.6 and 0.6 +
\* edge_time <= 1, every sample DeltaUpDown returns for a time t of phase p is
\* offset when p <= 0.1*T or p > (0.6 + edge_time)*T, amplitude + offset when
\* (0.1 + edge_time)*T <= p <= 0.6*T, the smoothstep up on the rise window
\* and down on the fall window, both windows closed, so the pieces agree at
\* the four window boundaries.
C19_ShapeForPositiveEdge ==
  func.kind = "DeltaUpDown" /\ EdgesFit(func) /\ func.edge_time > 0 =>
    \A i \in 1..Len(f_ret) : DeltaShape(func, f_t[i], f_ret[i])

\* Two samples returned: one inside the fall window, strictly between offset
\* and amplitude + offset and off the straight ramp, and one exactly at the
\* end of the fall window, equal to offset.
C19_Witness ==
  /\ func.kind = "DeltaUpDown"
  /\ func.edge_time = 2
  /\ func.amplitude = 100
  /\ Len(f_ret) = 2
  /\ LET T == TicksPerUnit \div func.frequency
     IN  /\ 6 * T < 10 * (f_t[1] % T)
         /\ 10 * (f_t[1] % T) < (6 + func.edge_time) * T
         /\ 10 * (f_t[2] % T) = (6 + func.edge_time) * T
  /\ func.offset < f_ret[1]
  /\ f_ret[1] < func.amplitude + func.offset
  /\ f_ret[1] # DeltaSampleLinear(func, f_t[1])
  /\ f_ret[2] = func.offset

====
